---- MODULE Spec2Model ----
(***************************************************************************)
(* Model of decompile.py: an interactive helper that probes for the .NET   *)
(* SDK and ilspycmd, prompts for a source path and an output folder, and   *)
(* runs ilspycmd once per .dll.                                            *)
(*                                                                         *)
(* Strings are sequences of one-character strings, so that the string      *)
(* operations of the program (strip, lower, endswith, splitext, join,      *)
(* expanduser, substring test) are computed character by character.        *)
(***************************************************************************)
EXTENDS Integers, Sequences, FiniteSets, TLC

VARIABLES pc, exitStatus, PATH, cmds, msgs,
          path_input, output_folder_input, path, output_folder,
          answers, choice, confirm_choice, dll_files, idx,
          dirContents, interrupted

vars == <<pc, exitStatus, PATH, cmds, msgs,
          path_input, output_folder_input, path, output_folder,
          answers, choice, confirm_choice, dll_files, idx,
          dirContents, interrupted>>

(***************************************************************************)
(* Bounds of the model.                                                    *)
(***************************************************************************)
MaxFiles == 2
MaxExitCode == 2

(***************************************************************************)
(* String constants.                                                       *)
(***************************************************************************)
DllSuffix == <<".", "d", "l", "l">>
QuoteChars == {"'", "\""}
Whitespace == {" ", "\t", "\n"}
Yes == <<"y">>
Home == <<"/", "h">>
DotnetToolsRel == <<"~", "/", ".", "d", "o", "t", "n", "e", "t", "/", "t", "o", "o", "l", "s">>

(***************************************************************************)
(* Python string and path operations.                                      *)
(***************************************************************************)
RECURSIVE LStrip(_, _)
LStrip(s, cs) == IF s # <<>> /\ Head(s) \in cs THEN LStrip(Tail(s), cs) ELSE s

RECURSIVE RStrip(_, _)
RStrip(s, cs) ==
    IF s # <<>> /\ s[Len(s)] \in cs THEN RStrip(SubSeq(s, 1, Len(s) - 1), cs) ELSE s

\* str.strip(chars)
Strip(s, cs) == RStrip(LStrip(s, cs), cs)

LowerChar(c) ==
    CASE c = "Y" -> "y"
      [] c = "N" -> "n"
      [] c = "E" -> "e"
      [] c = "S" -> "s"
      [] OTHER -> c

\* str.lower()
Lower(s) == [k \in 1..Len(s) |-> LowerChar(s[k])]

\* str.endswith(suffix)
EndsWith(s, suf) ==
    /\ Len(s) >= Len(suf)
    /\ SubSeq(s, Len(s) - Len(suf) + 1, Len(s)) = suf

\* str.startswith(prefix)
StartsWith(s, pre) == Len(s) >= Len(pre) /\ SubSeq(s, 1, Len(pre)) = pre

\* the substring test  t in s
Contains(s, t) ==
    \/ Len(t) = 0
    \/ \E k \in 1..(Len(s) - Len(t) + 1) : SubSeq(s, k, k + Len(t) - 1) = t

\* str.rfind(c) + 1 : the last position of c in s, 0 when absent
LastIndexOf(s, c) ==
    IF \E k \in 1..Len(s) : s[k] = c
    THEN CHOOSE k \in 1..Len(s) : s[k] = c /\ \A m \in (k + 1)..Len(s) : s[m] # c
    ELSE 0

\* the first position of c in s at or after position from, Len(s) + 1 when absent
FirstIndexFrom(s, c, from) ==
    IF \E k \in from..Len(s) : s[k] = c
    THEN CHOOSE k \in from..Len(s) : s[k] = c /\ \A m \in from..(k - 1) : s[m] # c
    ELSE Len(s) + 1

\* os.path.splitext(p)[0] : the extension starts at the last dot after the last
\* separator, and leading dots of the base name do not start an extension
splitext_root(p) ==
    LET sepIndex == LastIndexOf(p, "/")
        dotIndex == LastIndexOf(p, ".")
    IN  IF /\ dotIndex > sepIndex
           /\ \E k \in (sepIndex + 1)..(dotIndex - 1) : p[k] # "."
        THEN SubSeq(p, 1, dotIndex - 1)
        ELSE p

\* os.path.join(a, b)
join(a, b) ==
    IF StartsWith(b, <<"/">>) THEN b
    ELSE IF a = <<>> \/ EndsWith(a, <<"/">>) THEN a \o b
    ELSE a \o <<"/">> \o b

\* os.path.expanduser(p) : "~" and "~/..." expand to the home directory,
\* "~name" of an unknown user is returned unchanged
expanduser(p) ==
    IF ~StartsWith(p, <<"~">>) THEN p
    ELSE LET slash == FirstIndexFrom(p, "/", 2)
         IN  IF slash # 2 THEN p
             ELSE LET r == RStrip(Home, {"/"}) \o SubSeq(p, slash, Len(p))
                  IN  IF r = <<>> THEN <<"/">> ELSE r

\* "Clean and expand paths"
CleanPath(raw) == expanduser(Strip(raw, QuoteChars))

\* input(...).lower().strip()
ReadChoice(raw) == Strip(Lower(raw), Whitespace)

dotnet_tools_path == expanduser(DotnetToolsRel)

(***************************************************************************)
(* The environment: file system, console inputs, outcomes of commands.     *)
(***************************************************************************)
DirD == <<"/", "h", "/", "d">>
FileADll == <<"/", "h", "/", "a", ".", "d", "l", "l">>
FileNTxt == <<"/", "h", "/", "n", ".", "t", "x", "t">>

Dirs == {DirD}
Files == {FileADll, FileNTxt}

isdir(p) == p \in Dirs
isfile(p) == p \in Files

\* what the user may type at the source path prompt
RawPaths ==
    { <<"~", "/", "d">>,
      <<"'", "/", "h", "/", "d", "'">>,
      FileADll,
      <<" ", "\"", "~", "/", "a", ".", "d", "l", "l", "\"", " ">>,
      <<"~", "/", "n", ".", "t", "x", "t">>,
      <<"/", "x">>,
      <<>> }

\* what the user may type at the output folder prompt
RawOutputs ==
    { <<"/", "o">>,
      <<"'", "~", "/", "o", "'">>,
      <<>> }

\* what the user may type at a y/n prompt
RawAnswers ==
    { <<"y">>, <<"Y">>, <<" ", "y", " ">>, <<"n">>, <<>>, <<"y", "e", "s">> }

\* the names a directory may hold
Names ==
    { <<"a", ".", "d", "l", "l">>,
      <<"b", ".", "d", "l", "l">>,
      <<".", "d", "l", "l">>,
      <<".", "d", "l", "l", ".", "d", "l", "l">>,
      <<"n", ".", "t", "x", "t">> }

IsListing(l) == \A a, b \in 1..Len(l) : a # b => l[a] # l[b]

Listings ==
    UNION { { l \in [1..n -> Names] : IsListing(l) } : n \in 0..MaxFiles }

\* the values PATH may have when the program starts
Bin == <<"/", "b", "i", "n">>
InitialPaths ==
    { Bin,
      Bin \o <<":">> \o dotnet_tools_path,
      dotnet_tools_path \o <<"2">> \o <<":">> \o Bin }

\* how the start of an external command may end
Outcomes ==
    { [kind |-> "ok", code |-> 0],
      [kind |-> "notfound", code |-> 0],
      [kind |-> "oserror", code |-> 0] }
    \cup { [kind |-> "failed", code |-> c] : c \in 1..MaxExitCode }

(***************************************************************************)
(* run_command: what the caller sees for an outcome of subprocess.run.     *)
(***************************************************************************)
run_command_exit1(outcome) ==
    CASE outcome.kind = "notfound" ->
            [ctl |-> "exit", status |-> 1, msg |-> "command_not_found"]
      [] outcome.kind = "failed" ->
            [ctl |-> "exit", status |-> 1, msg |-> "command_failed"]
      [] outcome.kind = "oserror" ->
            [ctl |-> "raise", status |-> 1, msg |-> "traceback"]
      [] OTHER ->
            [ctl |-> "return", status |-> 0, msg |-> "none"]

run_command(outcome) ==
    CASE outcome.kind = "notfound" ->
            [ctl |-> "exit", status |-> 1, msg |-> "command_not_found"]
      [] outcome.kind = "failed" ->
            [ctl |-> "exit", status |-> outcome.code, msg |-> "command_failed"]
      [] outcome.kind = "oserror" ->
            [ctl |-> "raise", status |-> 1, msg |-> "traceback"]
      [] OTHER ->
            [ctl |-> "return", status |-> 0, msg |-> "none"]

Command(prog, args, p, o, outcome) ==
    [prog |-> prog, args |-> args, p |-> p, o |-> o, outcome |-> outcome]

\* sys.exit(status), and the end of the interpreter after an uncaught exception
Exit(status) == pc' = "exited" /\ exitStatus' = status

Init ==
    /\ pc = "check_dotnet"
    /\ exitStatus = 0
    /\ PATH \in InitialPaths
    /\ cmds = <<>>
    /\ msgs = {}
    /\ path_input = <<>>
    /\ output_folder_input = <<>>
    /\ path = <<>>
    /\ output_folder = <<>>
    /\ answers = <<>>
    /\ choice = <<>>
    /\ confirm_choice = <<>>
    /\ dll_files = <<>>
    /\ idx = 1
    /\ dirContents \in Listings
    /\ interrupted = FALSE

(***************************************************************************)
(* Helpers of main and handle_directory_input.                             *)
(***************************************************************************)
\* "except Exception" catches what run_command lets through; the SystemExit
\* raised by sys.exit inside run_command is not an Exception
except_Exception(r) == r.ctl = "raise"

\* the argument vector of decompile_dll: ilspycmd -p dll_path -o output_folder
decompile_dll_swapped(dll_path, out, outcome) ==
    Command("ilspycmd", "-p -o", out, dll_path, outcome)

decompile_dll(dll_path, out, outcome) ==
    Command("ilspycmd", "-p -o", dll_path, out, outcome)

\* the branches of the prompt loop of main
Classify_noExtensionCheck(p) ==
    IF isdir(p) THEN "dir"
    ELSE IF isfile(p) THEN "dll"
    ELSE "invalid"

Classify(p) ==
    IF isdir(p) THEN "dir"
    ELSE IF isfile(p) THEN (IF ~EndsWith(p, DllSuffix) THEN "not_dll" ELSE "dll")
    ELSE "invalid"

\* os.listdir(dir_path)
listdir(p) == dirContents

\* [f for f in os.listdir(dir_path) if f.endswith(".dll")]
FilterDll(l) == SelectSeq(l, LAMBDA f : EndsWith(f, DllSuffix))

\* if choice != 'y'
Declined_onlyN(c) == c = <<"n">>

Declined(c) == c # Yes

\* if not dll_files: print_error(...); sys.exit(1)
AfterListing_noCheck(files) ==
    [ctl |-> "continue", status |-> 0, msg |-> "found_dll_files"]

AfterListing(files) ==
    IF files = <<>>
    THEN [ctl |-> "exit", status |-> 1, msg |-> "no_dll_found"]
    ELSE [ctl |-> "continue", status |-> 0, msg |-> "found_dll_files"]

\* for dll_file in dll_files
MoreFiles_skipLast(k, files) == k < Len(files)

MoreFiles(k, files) == k <= Len(files)

\* full_dll_path and file_output_folder of the batch loop
full_dll_path(dir, dll_file) == join(dir, dll_file)
file_output_folder(out, dll_file) == join(out, splitext_root(dll_file))

PromptPcs == {"prompt_path", "prompt_output", "dir_confirm", "dir_confirm_all"}

(***************************************************************************)
(* main, step 1: the .NET SDK probe.                                       *)
(***************************************************************************)
CheckDotnet ==
    /\ pc = "check_dotnet"
    /\ \E outcome \in Outcomes :
         LET r == run_command(outcome)
         IN  /\ cmds' = Append(cmds, Command("dotnet", "--version", <<>>, <<>>, outcome))
             /\ IF r.ctl = "return"
                THEN /\ pc' = "ensure_path"
                     /\ UNCHANGED <<exitStatus, msgs>>
                ELSE IF except_Exception(r)
                THEN /\ msgs' = msgs \cup {"sdk_not_found"}
                     /\ Exit(1)
                ELSE /\ msgs' = msgs \cup {r.msg}
                     /\ Exit(r.status)
    /\ UNCHANGED <<PATH, path_input, output_folder_input, path, output_folder,
                   answers, choice, confirm_choice, dll_files, idx, dirContents,
                   interrupted>>

(***************************************************************************)
(* main, step 2: PATH.                                                     *)
(***************************************************************************)
EnsurePath ==
    /\ pc = "ensure_path"
    /\ PATH' = IF ~Contains(PATH, dotnet_tools_path)
               THEN PATH \o <<":">> \o dotnet_tools_path
               ELSE PATH
    /\ pc' = "check_ilspy"
    /\ UNCHANGED <<exitStatus, cmds, msgs, path_input, output_folder_input, path,
                   output_folder, answers, choice, confirm_choice, dll_files, idx,
                   dirContents, interrupted>>

(***************************************************************************)
(* main, step 3: the ilspycmd probe and the install.                       *)
(***************************************************************************)
CheckIlspy ==
    /\ pc = "check_ilspy"
    /\ \E outcome \in Outcomes :
         LET r == run_command(outcome)
         IN  /\ cmds' = Append(cmds, Command("ilspycmd", "--version", <<>>, <<>>, outcome))
             /\ IF r.ctl = "return"
                THEN /\ pc' = "prompt_path"
                     /\ UNCHANGED <<exitStatus, msgs>>
                ELSE IF except_Exception(r)
                THEN /\ msgs' = msgs \cup {"ilspycmd_not_found"}
                     /\ pc' = "install"
                     /\ UNCHANGED exitStatus
                ELSE /\ msgs' = msgs \cup {r.msg}
                     /\ Exit(r.status)
    /\ UNCHANGED <<PATH, path_input, output_folder_input, path, output_folder,
                   answers, choice, confirm_choice, dll_files, idx, dirContents,
                   interrupted>>

Install ==
    /\ pc = "install"
    /\ \E outcome \in Outcomes :
         LET r == run_command(outcome)
         IN  /\ cmds' = Append(cmds, Command("dotnet", "tool install --global ilspycmd",
                                             <<>>, <<>>, outcome))
             /\ IF r.ctl = "return"
                THEN /\ pc' = "prompt_path"
                     /\ UNCHANGED <<exitStatus, msgs>>
                ELSE /\ msgs' = msgs \cup {r.msg}
                     /\ Exit(r.status)
    /\ UNCHANGED <<PATH, path_input, output_folder_input, path, output_folder,
                   answers, choice, confirm_choice, dll_files, idx, dirContents,
                   interrupted>>

(***************************************************************************)
(* main, step 4: the prompt loop.                                          *)
(***************************************************************************)
PromptPath ==
    /\ pc = "prompt_path"
    /\ \E raw \in RawPaths : path_input' = Strip(raw, Whitespace)
    /\ pc' = "prompt_output"
    /\ UNCHANGED <<exitStatus, PATH, cmds, msgs, output_folder_input, path,
                   output_folder, answers, choice, confirm_choice, dll_files, idx,
                   dirContents, interrupted>>

PromptOutput ==
    /\ pc = "prompt_output"
    /\ \E raw \in RawOutputs : output_folder_input' = Strip(raw, Whitespace)
    /\ path' = CleanPath(path_input)
    /\ output_folder' = CleanPath(output_folder_input')
    /\ LET class == Classify(path')
       IN  CASE class = "dir" ->
                   /\ pc' = "dir_confirm"
                   /\ msgs' = msgs \cup {"is_directory"}
             [] class = "dll" ->
                   /\ pc' = "decompile_file"
                   /\ msgs' = msgs
             [] class = "not_dll" ->
                   /\ pc' = "prompt_path"
                   /\ msgs' = msgs \cup {"not_dll"}
             [] OTHER ->
                   /\ pc' = "prompt_path"
                   /\ msgs' = msgs \cup {"invalid_path"}
    /\ UNCHANGED <<exitStatus, PATH, cmds, path_input, answers, choice,
                   confirm_choice, dll_files, idx, dirContents, interrupted>>

\* decompile_dll(path, output_folder); break
DecompileSingle ==
    /\ pc = "decompile_file"
    /\ \E outcome \in Outcomes :
         LET r == run_command(outcome)
         IN  /\ cmds' = Append(cmds, decompile_dll(path, output_folder, outcome))
             /\ IF r.ctl = "return"
                THEN /\ msgs' = msgs \cup {"decompilation_complete"}
                     /\ Exit(0)
                ELSE /\ msgs' = msgs \cup {r.msg}
                     /\ Exit(r.status)
    /\ UNCHANGED <<PATH, path_input, output_folder_input, path, output_folder,
                   answers, choice, confirm_choice, dll_files, idx, dirContents,
                   interrupted>>

(***************************************************************************)
(* handle_directory_input.                                                 *)
(***************************************************************************)
\* the first prompt, the listing and the empty check
ConfirmFolder ==
    /\ pc = "dir_confirm"
    /\ \E raw \in RawAnswers :
         /\ answers' = Append(answers, raw)
         /\ choice' = ReadChoice(raw)
    /\ IF Declined(choice')
       THEN /\ msgs' = msgs \cup {"cancelled"}
            /\ Exit(0)
            /\ UNCHANGED dll_files
       ELSE /\ dll_files' = FilterDll(listdir(path))
            /\ LET a == AfterListing(dll_files')
               IN  /\ msgs' = msgs \cup {a.msg}
                   /\ IF a.ctl = "exit"
                      THEN Exit(a.status)
                      ELSE pc' = "dir_confirm_all" /\ UNCHANGED exitStatus
    /\ UNCHANGED <<PATH, cmds, path_input, output_folder_input, path, output_folder,
                   confirm_choice, idx, dirContents, interrupted>>

\* the second prompt
ConfirmAll ==
    /\ pc = "dir_confirm_all"
    /\ \E raw \in RawAnswers :
         /\ answers' = Append(answers, raw)
         /\ confirm_choice' = ReadChoice(raw)
    /\ IF confirm_choice' = Yes
       THEN /\ pc' = "dir_loop"
            /\ idx' = 1
            /\ UNCHANGED <<exitStatus, msgs>>
       ELSE /\ msgs' = msgs \cup {"cancelled_rerun"}
            /\ Exit(0)
            /\ UNCHANGED idx
    /\ UNCHANGED <<PATH, cmds, path_input, output_folder_input, path, output_folder,
                   choice, dll_files, dirContents, interrupted>>

\* one iteration of the batch loop
DecompileNext ==
    /\ pc = "dir_loop"
    /\ MoreFiles(idx, dll_files)
    /\ \E outcome \in Outcomes :
         LET r == run_command(outcome)
             dll_file == dll_files[idx]
         IN  /\ cmds' = Append(cmds, decompile_dll(full_dll_path(path, dll_file),
                                                   file_output_folder(output_folder, dll_file),
                                                   outcome))
             /\ IF r.ctl = "return"
                THEN /\ msgs' = msgs \cup {"decompilation_complete"}
                     /\ idx' = idx + 1
                     /\ UNCHANGED <<pc, exitStatus>>
                ELSE /\ msgs' = msgs \cup {r.msg}
                     /\ Exit(r.status)
                     /\ UNCHANGED idx
    /\ UNCHANGED <<PATH, path_input, output_folder_input, path, output_folder,
                   answers, choice, confirm_choice, dll_files, dirContents,
                   interrupted>>

\* the end of the batch loop: the success report, the break of main and the
\* normal end of the program
FinishBatch ==
    /\ pc = "dir_loop"
    /\ ~MoreFiles(idx, dll_files)
    /\ msgs' = msgs \cup {"all_success"}
    /\ Exit(0)
    /\ UNCHANGED <<PATH, cmds, path_input, output_folder_input, path, output_folder,
                   answers, choice, confirm_choice, dll_files, idx, dirContents,
                   interrupted>>

(***************************************************************************)
(* except KeyboardInterrupt around each input().                           *)
(***************************************************************************)
KeyboardInterrupt_uncaught ==
    /\ pc \in PromptPcs
    /\ interrupted' = TRUE
    /\ msgs' = msgs \cup {"traceback"}
    /\ Exit(1)
    /\ UNCHANGED <<PATH, cmds, path_input, output_folder_input, path, output_folder,
                   answers, choice, confirm_choice, dll_files, idx, dirContents>>

KeyboardInterrupt ==
    /\ pc \in PromptPcs
    /\ interrupted' = TRUE
    /\ msgs' = msgs \cup {"cancelled_by_user"}
    /\ Exit(0)
    /\ UNCHANGED <<PATH, cmds, path_input, output_folder_input, path, output_folder,
                   answers, choice, confirm_choice, dll_files, idx, dirContents>>

Next ==
    \/ CheckDotnet
    \/ EnsurePath
    \/ CheckIlspy
    \/ Install
    \/ PromptPath
    \/ PromptOutput
    \/ DecompileSingle
    \/ ConfirmFolder
    \/ ConfirmAll
    \/ DecompileNext
    \/ FinishBatch
    \/ KeyboardInterrupt

Spec == Init /\ [][Next]_vars

(***************************************************************************)
(* Vocabulary of the properties.                                           *)
(***************************************************************************)
\* the decompile invocations of the run, in order
Decompiles == SelectSeq(cmds, LAMBDA c : c.args = "-p -o")

IsDllName(f) == EndsWith(f, DllSuffix)

\* the names of the directory that end in ".dll", in listing order
Matching == SelectSeq(dirContents, IsDllName)

IsDllFile(p) == isfile(p) /\ EndsWith(p, DllSuffix)

\* the PATH step of main is behind the program
PathStepDone ==
    /\ Len(cmds) >= 1
    /\ cmds[1].outcome.kind = "ok"
    /\ pc # "ensure_path"

\* d is one of the colon-separated entries of the search path s
IsPathEntry(s, d) ==
    \E a \in 1..Len(s) :
        /\ a = 1 \/ s[a - 1] = ":"
        /\ a + Len(d) - 1 <= Len(s)
        /\ SubSeq(s, a, a + Len(d) - 1) = d
        /\ a + Len(d) - 1 = Len(s) \/ s[a + Len(d)] = ":"

FirstConfirmed == Len(answers) >= 1 /\ choice = Yes
FirstDeclined == Len(answers) >= 1 /\ choice # Yes
SecondDeclined == Len(answers) = 2 /\ confirm_choice # Yes
BothConfirmed == Len(answers) = 2 /\ choice = Yes /\ confirm_choice = Yes

(***************************************************************************)
(* C1: when the probe "ilspycmd --version" finds no executable, the run    *)
(* does not end there: the next command is the tool install.               *)
(* The code ends the run with status 1 inside run_command, so TLC finds    *)
(* this violated.                                                          *)
(***************************************************************************)
C1_AbsenceHandsOffToInstaller ==
    \A k \in 1..Len(cmds) :
        (/\ cmds[k].prog = "ilspycmd"
         /\ cmds[k].args = "--version"
         /\ cmds[k].outcome.kind = "notfound")
        => /\ k = Len(cmds) => pc = "install"
           /\ k < Len(cmds) => cmds[k + 1].args = "tool install --global ilspycmd"

(***************************************************************************)
(* C2, as stated: every run that entered a directory without a name ending *)
(* in ".dll" ends with status 1 and the "No .dll files found" error.       *)
(* Violated: the first confirmation can be declined or interrupted.        *)
(***************************************************************************)
C2_AnyRunOnEmptyDirectoryExits1 ==
    (isdir(path) /\ Matching = <<>> /\ pc = "exited")
    => (exitStatus = 1 /\ "no_dll_found" \in msgs /\ Decompiles = <<>>)

(***************************************************************************)
(* C2, amended: once the user has confirmed the first prompt for a         *)
(* directory without a name ending in ".dll", the run has ended with       *)
(* status 1 and the "No .dll files found" error; and no run on such a      *)
(* directory invokes the decompiler.                                       *)
(***************************************************************************)
C2_ConfirmedEmptyDirectoryExits1 ==
    (isdir(path) /\ Matching = <<>>)
    => /\ Decompiles = <<>>
       /\ FirstConfirmed => (pc = "exited" /\ exitStatus = 1 /\ "no_dll_found" \in msgs)

C2_Witness ==
    /\ isdir(path)
    /\ dirContents # <<>>
    /\ Matching = <<>>
    /\ FirstConfirmed
    /\ pc = "exited"
    /\ exitStatus = 1

C4_DistinctSubfolders ==
    isdir(path)
    => \A a, b \in 1..Len(Decompiles) :
           a # b => Decompiles[a].o # Decompiles[b].o

C6_DecliningExitsCleanly ==
    (isdir(path) /\ (FirstDeclined \/ SecondDeclined))
    => (pc = "exited" /\ exitStatus = 0 /\ Decompiles = <<>>)

C6_Witness ==
    /\ isdir(path)
    /\ Matching # <<>>
    /\ SecondDeclined
    /\ choice = Yes
    /\ pc = "exited"

(***************************************************************************)
(* C7: a step that classifies the entered pair goes back to the source     *)
(* path prompt, with no command run and no exit, when the path is neither  *)
(* a directory nor an existing ".dll" file; and the prompt loop is left    *)
(* only for a directory, an existing ".dll" file or an interrupt.          *)
(***************************************************************************)
C7_InvalidInputReprompts ==
    [][ /\ (pc = "prompt_output" /\ ~interrupted' /\ ~isdir(path') /\ ~IsDllFile(path'))
           => (pc' = "prompt_path" /\ cmds' = cmds /\ exitStatus' = exitStatus)
        /\ (pc \in {"prompt_path", "prompt_output"}
            /\ pc' \notin {"prompt_path", "prompt_output"})
           => (interrupted' \/ isdir(path') \/ IsDllFile(path'))
        /\ (pc = "prompt_output" /\ ~interrupted')
           => path' = expanduser(Strip(path_input, QuoteChars))
      ]_vars

C7_Witness ==
    /\ pc = "prompt_path"
    /\ {"invalid_path", "not_dll"} \subseteq msgs
    /\ cmds[Len(cmds)].args = "tool install --global ilspycmd"

(***************************************************************************)
(* C8, as stated: a run that entered an existing ".dll" file ends with     *)
(* exactly one decompile invocation and status 0.                          *)
(* Violated: the invocation itself can fail, which ends the run with the   *)
(* status of the failure.                                                  *)
(***************************************************************************)
C8_SingleFileAlwaysExits0 ==
    (IsDllFile(path) /\ pc = "exited")
    => (Len(Decompiles) = 1 /\ exitStatus = 0)

(***************************************************************************)
(* C8, amended: for an existing ".dll" file the run makes exactly one      *)
(* decompile invocation, on that file and into the entered output folder   *)
(* itself, and ends without another prompt; with status 0 when that        *)
(* invocation succeeded.                                                   *)
(***************************************************************************)
C8_SingleFileOneInvocation ==
    IsDllFile(path)
    => /\ pc \in {"decompile_file", "exited"}
       /\ pc = "decompile_file" => Decompiles = <<>>
       /\ pc = "exited"
            => /\ Len(Decompiles) = 1
               /\ Decompiles[1].prog = "ilspycmd"
               /\ Decompiles[1].p = path
               /\ Decompiles[1].o = expanduser(Strip(output_folder_input, QuoteChars))
               /\ Decompiles[1].outcome.kind = "ok" => exitStatus = 0

C8_Witness ==
    /\ IsDllFile(path)
    /\ path_input # path
    /\ output_folder_input # output_folder
    /\ pc = "exited"
    /\ exitStatus = 0
    /\ Len(Decompiles) = 1
    /\ "not_dll" \in msgs

(***************************************************************************)
(* C9: the step in which a prompt is interrupted ends the run with status  *)
(* 0 and runs no command, and no step after it runs a command or changes   *)
(* the status.                                                             *)
(***************************************************************************)
C9_InterruptExitsCleanly ==
    [][ interrupted' => (pc' = "exited" /\ exitStatus' = 0 /\ cmds' = cmds) ]_vars

C9_Witness ==
    /\ interrupted
    /\ pc = "exited"
    /\ Len(answers) = 1
    /\ isdir(path)

(***************************************************************************)
(* C10: after the PATH step of main the per-user tool directory is one of  *)
(* the entries of PATH.  Violated: the code tests for a substring, and     *)
(* leaves alone a PATH in which the directory's name is only part of an    *)
(* entry.                                                                  *)
(***************************************************************************)
C10_PathHoldsToolsDirectory ==
    PathStepDone => IsPathEntry(PATH, dotnet_tools_path)

\* the frame part of C10, which the code does satisfy: PATH changes only in the
\* PATH step, only by appending ":" and the tool directory, and then only when
\* the directory's name does not occur in PATH
PathChangesOnlyByAppendingOnce ==
    [][ PATH' # PATH
        => /\ pc = "ensure_path"
           /\ pc' # "ensure_path"
           /\ ~Contains(PATH, dotnet_tools_path)
           /\ PATH' = PATH \o <<":">> \o dotnet_tools_path ]_vars

====
